---- MODULE Spec2Model ----
(***************************************************************************)
(* Job detail page (views/jobs/detail.tsx) and DAG component               *)
(* (components/directed-acyclic-graph/index.tsx) of the engine UI.         *)
(*                                                                         *)
(* An optional JavaScript value is a sequence of length at most one:       *)
(* <<>> is undefined, <<v>> is the value v.                                *)
(***************************************************************************)
EXTENDS Integers, Sequences, FiniteSets, TLC

VARIABLES
    fetch,       \* getJobInfo promise: "pending", "done" or "failed"
    job,         \* the reactive job object of detail.tsx (prop of the DAG)
    timer,       \* the DAG's 500 ms setTimeout: "armed" or "fired"
    initSaw,     \* what init() found in props.job: "none", "empty" or "loaded"
    threw,       \* init() ended with an uncaught TypeError
    matrix,      \* the row layout init() built, as rows of vertex ids
    cells,       \* the cells handed to graph.resetCells
    now,         \* Date.now(), in ms
    respTime,    \* Date.now() when the response was handled
    duration,    \* duration.value: <<>> for '', <<ms>> for getRemainTime(ms)
    writes,      \* the assignments made to duration.value
    intervalOn,  \* the setInterval of the response handler is running
    ticks,       \* the calls of the interval callback
    select,      \* the selected tab
    focusedId,   \* focusedId.value
    drawerShow,  \* drawerShow.value
    lastOp,      \* the last user event handled
    table,       \* the rows of the metrics table as last rendered
    statusList,  \* the argument of showNodeStatus: <<>> before its first call
    animTimers,  \* the pending 5 s timeouts of showNodeStatus
    invocations, \* the calls of showNodeStatus so far
    lastCall     \* what the last call of showNodeStatus did

dagVars == <<timer, initSaw, threw, matrix, cells>>
clockVars == <<now, respTime, duration, writes, intervalOn, ticks>>
drawerVars == <<select, focusedId, drawerShow, lastOp>>
animVars == <<statusList, animTimers, invocations, lastCall>>
vars == <<fetch, job, dagVars, clockVars, drawerVars, table, animVars>>

----------------------------------------------------------------------------
(* Bounds of the model *)

\* Vertices plus edges of a job's DAG, and its pipelines.
MaxDagSize == 5
MaxPipelines == 2
\* Seconds the clock advances.
MaxClock == 3
\* Table paths of a vertex of the metrics table.
MaxPaths == 2
\* Snapshots of a status list, updates of a snapshot, calls of showNodeStatus.
MaxSnapshots == 2
MaxUpdates == 2
MaxInvocations == 3

----------------------------------------------------------------------------
(* JavaScript values *)

Undef == <<>>
Some(v) == <<v>>
IsDef(o) == o # <<>>
Val(o) == o[1]

\* String(n) of a number: its decimal digits.
String(n) == ToString(n)

SeqsUpTo(S, n) == UNION {[1..k -> S] : k \in 0..n}

RECURSIVE Flatten(_)
Flatten(rows) ==
    IF rows = <<>> THEN <<>> ELSE Head(rows) \o Flatten(Tail(rows))

----------------------------------------------------------------------------
(* The job snapshot (service/job/types: Job, Vertex) *)

VertexOf(id, type, paths) == [vertexId |-> id, type |-> type, tablePaths |-> paths]

Vertex(id) == VertexOf(id, "source", <<>>)

JobStatuses == {"RUNNING", "FINISHED", "FAILED"}

Edge(a, b) == [inputVertexId |-> String(a), targetVertexId |-> String(b)]

EmptyJob ==
    [jobStatus |-> Undef, createTime |-> Undef, jobDag |-> Undef,
     metrics |-> Undef]

\* The vertex id lists: the ids 1..n in any order.
IdLists ==
    UNION {{s \in [1..n -> 1..n] : \A i, k \in 1..n : i # k => s[i] # s[k]}
           : n \in 0..MaxDagSize}

Range(s) == {s[i] : i \in DOMAIN s}

\* The pairs a flat edge list joins, and whether they close a cycle.
RECURSIVE ReachFrom(_, _, _)
ReachFrom(pairs, from, n) ==
    IF n = 0 THEN from
    ELSE ReachFrom(pairs, from \cup {p[2] : p \in {q \in pairs : q[1] \in from}},
                   n - 1)

Acyclic(pairs) ==
    \A p \in pairs : p[1] \notin ReachFrom(pairs, {p[2]}, Cardinality(pairs))

\* The ways to cut a flat edge list into pipelines 1..p: a nondecreasing
\* assignment of a pipeline to each position.
Cuts(es, p) ==
    {g \in [DOMAIN es -> 1..p] : \A x, y \in DOMAIN es : x < y => g[x] <= g[y]}

RECURSIVE EdgesOfPipeline(_, _, _)
EdgesOfPipeline(es, f, k) ==
    IF es = <<>> THEN <<>>
    ELSE (IF f[1] = k THEN <<Edge(es[1][1], es[1][2])>> ELSE <<>>)
         \o EdgesOfPipeline(Tail(es), Tail(f), k)

\* A pipelineEdges map: pipelines "1".."p", each with its list of edges.
\* Object.keys lists integer keys in ascending order, the order of the
\* sequence.
EdgeMap(es, p, f) ==
    [k \in 1..p |-> [key |-> String(k), edges |-> EdgesOfPipeline(es, f, k)]]

\* The flat edge lists over the vertices ids: edges between different
\* vertices of the list, closing no cycle, as many as MaxDagSize leaves.
FlatEdges(ids) ==
    {es \in SeqsUpTo({q \in ids \X ids : q[1] # q[2]},
                     MaxDagSize - Cardinality(ids)) :
        Acyclic(Range(es))}

VertexInfoMap(ids) == [i \in DOMAIN ids |-> Vertex(ids[i])]

DagJob(vs, pe) ==
    [EmptyJob EXCEPT !.jobStatus = Some("RUNNING"),
                     !.createTime = Some(0),
                     !.jobDag = Some([vertexInfoMap |-> vs, pipelineEdges |-> pe])]

----------------------------------------------------------------------------
(* directed-acyclic-graph/index.tsx *)

nodeWidth == 300
offsetY == 140
offsetX == nodeWidth + 240

\* props.job.jobDag.pipelineEdges || {}   (the caller has a defined jobDag)
edgeMapOf(j) ==
    IF IsDef(Val(j.jobDag).pipelineEdges)
    THEN Val(Val(j.jobDag).pipelineEdges) ELSE <<>>

\* isConnected with the two ends of the edge taken the wrong way round.
isConnected_swapped(j, source, target) ==
    \E k \in DOMAIN edgeMapOf(j) :
        \E e \in DOMAIN edgeMapOf(j)[k].edges :
            /\ edgeMapOf(j)[k].edges[e].inputVertexId = String(target.vertexId)
            /\ edgeMapOf(j)[k].edges[e].targetVertexId = String(source.vertexId)

isConnected(j, source, target) ==
    \E k \in DOMAIN edgeMapOf(j) :
        \E e \in DOMAIN edgeMapOf(j)[k].edges :
            /\ edgeMapOf(j)[k].edges[e].inputVertexId = String(source.vertexId)
            /\ edgeMapOf(j)[k].edges[e].targetVertexId = String(target.vertexId)

\* props?.job?.jobDag?.vertexInfoMap?.map(...) || []
pointsOf(j) ==
    IF IsDef(j.jobDag) /\ IsDef(Val(j.jobDag).vertexInfoMap)
    THEN Val(Val(j.jobDag).vertexInfoMap) ELSE <<>>

\* The layout state of init(): the matrix (rows of indices into points), and
\* for each point its next list and the index of the row array it refers to
\* (0 while unset).
EmptyLayout(points) ==
    [matrix |-> <<>>,
     next |-> [i \in DOMAIN points |-> <<>>],
     row |-> [i \in DOMAIN points |-> 0]]

\* The first point of the matrix, rows then columns, connected to item;
\* 0 stands for undefined.
findPrevious(j, points, mat, item) ==
    LET flat == Flatten(mat)
        hits == {q \in DOMAIN flat : isConnected(j, points[flat[q]], points[item])}
    IN  IF hits = {} THEN 0
        ELSE flat[CHOOSE q \in hits : \A r \in hits : q <= r]

\* LayoutStep without the fan-out branch: the point always goes to the row
\* of its predecessor.
LayoutStep_noFanOut(j, points, st, item) ==
    LET prevous == findPrevious(j, points, st.matrix, item)
    IN  IF prevous = 0
        THEN [matrix |-> Append(st.matrix, <<item>>),
              next |-> st.next,
              row |-> [st.row EXCEPT ![item] = Len(st.matrix) + 1]]
        ELSE [matrix |-> [st.matrix EXCEPT ![st.row[prevous]] = Append(@, item)],
              next |-> [st.next EXCEPT ![prevous] = Append(@, item)],
              row |-> [st.row EXCEPT ![item] = st.row[prevous]]]

\* One call of the points.forEach callback, for the point at index item.
LayoutStep(j, points, st, item) ==
    LET prevous == findPrevious(j, points, st.matrix, item)
        newRow == [matrix |-> Append(st.matrix, <<item>>),
                   next |-> st.next,
                   row |-> [st.row EXCEPT ![item] = Len(st.matrix) + 1]]
    IN  IF prevous = 0 THEN newRow
        ELSE IF st.next[prevous] # <<>>
        THEN [newRow EXCEPT !.next[prevous] = Append(@, item)]
        ELSE [matrix |-> [st.matrix EXCEPT ![st.row[prevous]] = Append(@, item)],
              next |-> [st.next EXCEPT ![prevous] = <<item>>],
              row |-> [st.row EXCEPT ![item] = st.row[prevous]]]

\* The layout state after the first n calls of the callback.
RECURSIVE LayoutAfter(_, _, _)
LayoutAfter(j, points, n) ==
    IF n = 0 THEN EmptyLayout(points)
    ELSE LayoutStep(j, points, LayoutAfter(j, points, n - 1), n)

nodeId(v) == "node-" \o String(v.vertexId)

portsOf(id, colNumber, rowLen) ==
    (IF colNumber # 0 THEN <<[id |-> id \o "-left", group |-> "left"]>> ELSE <<>>)
    \o (IF colNumber # rowLen - 1
        THEN <<[id |-> id \o "-right", group |-> "right"]>> ELSE <<>>)

\* matrix.forEach(row => row.forEach(item => items.push(node)))
nodeItems(j, points, mat) ==
    Flatten([r \in DOMAIN mat |->
        [c \in DOMAIN mat[r] |->
            [id |-> nodeId(points[mat[r][c]]),
             shape |-> "dag-node",
             x |-> (c - 1) * offsetX,
             y |-> (r - 1) * offsetY,
             data |-> [id |-> points[mat[r][c]].vertexId,
                       status |-> IF IsDef(j.jobStatus) THEN Val(j.jobStatus)
                                  ELSE "default"],
             ports |-> portsOf(nodeId(points[mat[r][c]]), c - 1, Len(mat[r]))]]])

\* for (const id of Object.keys(edgeMap)) for (const edge of edges) items.push(edge)
edgeItems(em) ==
    LET perKey == [k \in DOMAIN em |->
            [e \in DOMAIN em[k].edges |->
                [id |-> "edge-" \o em[k].key,
                 shape |-> "dag-edge",
                 source |-> [cell |-> "node-" \o em[k].edges[e].inputVertexId,
                             port |-> "node-" \o em[k].edges[e].inputVertexId
                                      \o "-right"],
                 target |-> [cell |-> "node-" \o em[k].edges[e].targetVertexId,
                             port |-> "node-" \o em[k].edges[e].targetVertexId
                                      \o "-left"]]]]
        flat == Flatten(perKey)
    IN  [i \in DOMAIN flat |->
            [id |-> flat[i].id, shape |-> flat[i].shape,
             source |-> flat[i].source, target |-> flat[i].target,
             zIndex |-> i - 1]]

\* The matrix with each point shown by its vertexId.
idRows(points, mat) ==
    [r \in DOMAIN mat |-> [c \in DOMAIN mat[r] |-> points[mat[r][c]].vertexId]]

\* init(): the layout, then the items; reading pipelineEdges of an undefined
\* jobDag throws before graph.resetCells is reached.
init(j) ==
    LET points == pointsOf(j)
        st == LayoutAfter(j, points, Len(points))
    IN  IF ~IsDef(j.jobDag)
        THEN [threw |-> TRUE, matrix |-> idRows(points, st.matrix), cells |-> <<>>]
        ELSE [threw |-> FALSE,
              matrix |-> idRows(points, st.matrix),
              cells |-> nodeItems(j, points, st.matrix) \o edgeItems(edgeMapOf(j))]

----------------------------------------------------------------------------
(* views/jobs/detail.tsx: the response handler and the elapsed-time timer *)

Abs(x) == IF x < 0 THEN -x ELSE x

\* The period of the setInterval, in ms.
tickMs == 1000

\* parse(res.createTime, 'yyyy-MM-dd HH:mm:ss', new Date()).getTime(): the
\* text names a second, the result counts ms.
parse(createTime) == createTime * 1000

\* Math.abs(Date.now() - d.getTime()), the argument of getRemainTime
Elapsed(t, d) == Abs(t - d)

\* The handler goes on to setInterval for every status.
StartsInterval_always(res) == TRUE

\* if (job.jobStatus !== 'RUNNING') return; setInterval(...)
StartsInterval(res) == res.jobStatus = Some("RUNNING")

ClockInit ==
    /\ now = 0
    /\ respTime = 0
    /\ duration = <<>>
    /\ writes = 0
    /\ intervalOn = FALSE
    /\ ticks = 0

\* getJobInfo(jobId).then(res => { Object.assign(job, res); duration.value =
\* ...; if (job.jobStatus !== 'RUNNING') return; setInterval(...) })
FetchResponse(res) ==
    /\ fetch = "pending"
    /\ fetch' = "done"
    /\ job' = res
    /\ duration' = Some(Elapsed(now, parse(Val(res.createTime))))
    /\ writes' = writes + 1
    /\ respTime' = now
    /\ intervalOn' = StartsInterval(res)
    /\ UNCHANGED <<table, animVars, now, ticks, dagVars, drawerVars>>

\* The promise rejects: no handler runs.
FetchFail ==
    /\ fetch = "pending"
    /\ fetch' = "failed"
    /\ UNCHANGED <<table, animVars, job, dagVars, clockVars, drawerVars>>

\* One period later the interval callback runs:
\* duration.value = getRemainTime(Math.abs(Date.now() - d.getTime()))
IntervalTick ==
    /\ intervalOn
    /\ now < MaxClock * tickMs
    /\ now' = now + tickMs
    /\ duration' = Some(Elapsed(now', parse(Val(job.createTime))))
    /\ writes' = writes + 1
    /\ ticks' = ticks + 1
    /\ UNCHANGED <<table, animVars, fetch, job, respTime, intervalOn, dagVars, drawerVars>>

\* A second passes with no interval running.
TimePasses ==
    /\ ~intervalOn
    /\ now < MaxClock * tickMs
    /\ now' = now + tickMs
    /\ UNCHANGED <<table, animVars, fetch, job, respTime, duration, writes, intervalOn, ticks,
                   dagVars, drawerVars>>

----------------------------------------------------------------------------
(* views/jobs/detail.tsx: tabs, focus and drawer *)

Tabs == {"Overview", "Exception", "Configuration"}

\* job.jobDag?.vertexInfoMap?.filter((v) => v.type !== 'transform') || []
IsNotTransform(v) == v.type # "transform"
tableData(j) == SelectSeq(pointsOf(j), IsNotTransform)

\* onFocus that keeps the old focus when handed the id 0.
onFocus_keepsOnZero(id) ==
    /\ drawerShow' = TRUE
    /\ focusedId' = IF id = 0 THEN focusedId ELSE id

onFocus(id) ==
    /\ drawerShow' = TRUE
    /\ focusedId' = id

onDrawerClose ==
    /\ drawerShow' = FALSE
    /\ focusedId' = focusedId

\* NDrawer show={select.value === 'Overview' && !!focusedId.value && drawerShow.value}
DrawerShown == select = "Overview" /\ focusedId # 0 /\ drawerShow

DrawerInit ==
    /\ select = "Overview"
    /\ focusedId = 0
    /\ drawerShow = FALSE
    /\ lastOp = "none"

\* graph.on('node:click'): props.onNodeClick(id) for a node of the Overview
\* pane; a node stands for a vertex of the job's list.
NodeClick ==
    /\ select = "Overview"
    /\ \E i \in DOMAIN pointsOf(job) : onFocus(pointsOf(job)[i].vertexId)
    /\ lastOp' = "node"
    /\ UNCHANGED <<table, animVars, fetch, job, select, dagVars, clockVars>>

\* graph.on('blank:click'): props.onNodeClick(0)
BlankClick ==
    /\ select = "Overview"
    /\ onFocus(0)
    /\ lastOp' = "blank"
    /\ UNCHANGED <<table, animVars, fetch, job, select, dagVars, clockVars>>

\* rowProps: onClick: () => onFocus(row.vertexId), for a row of the table
RowClick ==
    /\ select = "Overview"
    /\ \E i \in DOMAIN tableData(job) : onFocus(tableData(job)[i].vertexId)
    /\ lastOp' = "row"
    /\ UNCHANGED <<table, animVars, fetch, job, select, dagVars, clockVars>>

\* onUpdateShow={onDrawerClose}: the close button of the shown drawer
DrawerClose ==
    /\ DrawerShown
    /\ onDrawerClose
    /\ lastOp' = "close"
    /\ UNCHANGED <<table, animVars, fetch, job, select, dagVars, clockVars>>

\* v-model:value={select.value}
TabChange ==
    /\ \E t \in Tabs \ {select} : select' = t
    /\ lastOp' = "tab"
    /\ UNCHANGED <<table, animVars, fetch, job, focusedId, drawerShow, dagVars, clockVars>>

----------------------------------------------------------------------------
(* views/jobs/detail.tsx: the metrics table *)

SourceKeys ==
    <<"TableSourceReceivedBytes", "TableSourceReceivedCount",
      "TableSourceReceivedQPS", "TableSourceReceivedBytesPerSeconds">>
SinkKeys ==
    <<"TableSinkWriteBytes", "TableSinkWriteCount", "TableSinkWriteQPS",
      "TableSinkWriteBytesPerSeconds">>
MetricKeys == Range(SourceKeys) \cup Range(SinkKeys)

\* The results of evaluating a JavaScript expression.
Num(v) == [kind |-> "number", v |-> v]
NaN == [kind |-> "NaN", v |-> 0]
Undefined == [kind |-> "undefined", v |-> 0]
TypeError == [kind |-> "TypeError", v |-> 0]

\* job.metrics?.[key][path]: undefined when metrics is undefined, a
\* TypeError when metrics has no map under key.
metricAt(j, key, path) ==
    IF ~IsDef(j.metrics) THEN Undefined
    ELSE IF ~IsDef(Val(j.metrics)[key]) THEN TypeError
    ELSE IF ~IsDef(Val(Val(j.metrics)[key])[path]) THEN Undefined
    ELSE Num(Val(Val(Val(j.metrics)[key])[path]))

\* Number(x)
Number(x) == IF x.kind = "undefined" THEN NaN ELSE x

\* s + n
Plus(s, n) ==
    IF s.kind = "NaN" \/ n.kind = "NaN" THEN NaN ELSE Num(s.v + n.v)

\* row.tablePaths.reduce((s, path) => s + Number(job.metrics?.[key][path]), 0)
RECURSIVE reducePaths(_, _, _, _)
reducePaths(j, key, paths, acc) ==
    IF paths = <<>> THEN acc
    ELSE IF metricAt(j, key, Head(paths)).kind = "TypeError" THEN TypeError
    ELSE reducePaths(j, key, Tail(paths),
                     Plus(acc, Number(metricAt(j, key, Head(paths)))))

sourceCell(j, row, key) ==
    IF row.type = "source" THEN reducePaths(j, key, row.tablePaths, Num(0))
    ELSE Num(0)

sinkCell(j, row, key) ==
    IF row.type = "sink" THEN reducePaths(j, key, row.tablePaths, Num(0))
    ELSE Num(0)

\* The eight metric columns, in the order of the columns array.
columns ==
    <<[cell |-> "source", key |-> SourceKeys[1]], [cell |-> "sink", key |-> SinkKeys[1]],
      [cell |-> "source", key |-> SourceKeys[2]], [cell |-> "sink", key |-> SinkKeys[2]],
      [cell |-> "source", key |-> SourceKeys[3]], [cell |-> "sink", key |-> SinkKeys[3]],
      [cell |-> "source", key |-> SourceKeys[4]], [cell |-> "sink", key |-> SinkKeys[4]]>>

\* NDataTable columns={columns} data={tableData.value}: each row with the
\* result of each column's render.
renderTable(j) ==
    [r \in DOMAIN tableData(j) |->
        [row |-> tableData(j)[r],
         cells |-> [c \in DOMAIN columns |->
            IF columns[c].cell = "source"
            THEN sourceCell(j, tableData(j)[r], columns[c].key)
            ELSE sinkCell(j, tableData(j)[r], columns[c].key)]]]

TableInit == table = renderTable(EmptyJob)

\* The table renders again after the job changed.
RenderTable ==
    /\ table # renderTable(job)
    /\ table' = renderTable(job)
    /\ UNCHANGED <<fetch, job, dagVars, clockVars, drawerVars, animVars>>

----------------------------------------------------------------------------
(* directed-acyclic-graph/index.tsx: showNodeStatus *)

\* graph.getCellById(id): the index of the cell in cells, 0 when there is none.
getCellById(cs, id) ==
    IF \E i \in DOMAIN cs : cs[i].id = id
    THEN CHOOSE i \in DOMAIN cs : cs[i].id = id
    ELSE 0

\* status?.forEach(item => { node = graph.getCellById(`node-${id}`);
\* data = node.getData(); node.setData({...data, status}) }): node.getData()
\* of no node throws and ends the call.
RECURSIVE applySnapshot(_, _, _)
applySnapshot(cs, snap, done) ==
    IF snap = <<>> THEN [cells |-> cs, mutations |-> done, threw |-> FALSE]
    ELSE LET n == getCellById(cs, "node-" \o String(Head(snap).id))
         IN  IF n = 0 THEN [cells |-> cs, mutations |-> done, threw |-> TRUE]
             ELSE applySnapshot(
                    [cs EXCEPT ![n].data.status = Head(snap).status],
                    Tail(snap), done + 1)

AnimInit ==
    /\ statusList = <<>>
    /\ animTimers = 0
    /\ invocations = 0
    /\ lastCall = [picked |-> 0, mutations |-> 0, scheduled |-> 0, threw |-> FALSE]

\* One call showNodeStatus(list) with timers timeouts pending: Math.random
\* picks any index of the list; an empty list gives status undefined.
showNodeStatus(list, timers) ==
    /\ invocations' = invocations + 1
    /\ IF list = <<>>
       THEN /\ lastCall' = [picked |-> 0, mutations |-> 0, scheduled |-> 0,
                            threw |-> FALSE]
            /\ animTimers' = timers
            /\ cells' = cells
       ELSE \E i \in DOMAIN list :
              LET r == applySnapshot(cells, list[i], 0)
              IN  /\ cells' = r.cells
                  /\ lastCall' = [picked |-> i, mutations |-> r.mutations,
                                  scheduled |-> IF r.threw THEN 0 ELSE 1,
                                  threw |-> r.threw]
                  /\ animTimers' = timers + (IF r.threw THEN 0 ELSE 1)

NodeStatuses == [id : {1, 2, 3}, status : {"RUNNING", "FINISHED"}]

\* The first call, with any list of snapshots.
CallShowNodeStatus ==
    /\ invocations = 0
    /\ statusList = <<>>
    /\ \E list \in SeqsUpTo(SeqsUpTo(NodeStatuses, MaxUpdates), MaxSnapshots) :
          /\ statusList' = Some(list)
          /\ showNodeStatus(list, animTimers)
    /\ UNCHANGED <<fetch, job, timer, initSaw, threw, matrix, clockVars,
                   drawerVars, table>>

\* setTimeout(() => { showNodeStatus(statusList) }, 5000)
AnimTimerFire ==
    /\ animTimers > 0
    /\ invocations < MaxInvocations
    /\ showNodeStatus(Val(statusList), animTimers - 1)
    /\ UNCHANGED <<fetch, job, timer, initSaw, threw, matrix, clockVars,
                   drawerVars, table, statusList>>

----------------------------------------------------------------------------
(* The DAG component mounted in the page *)

DagInit ==
    /\ timer = "armed"
    /\ initSaw = "none"
    /\ threw = FALSE
    /\ matrix = <<>>
    /\ cells = <<>>

\* The response handler, for a response without jobDag, with a jobDag
\* without its fields, or with a DAG.
FetchResponseDag ==
    /\ fetch = "pending"
    /\ \/ FetchResponse([EmptyJob EXCEPT !.jobStatus = Some("RUNNING"),
                                         !.createTime = Some(0)])
       \/ FetchResponse(DagJob(Undef, Undef))
       \/ \E ids \in IdLists : FetchResponse(DagJob(Some(VertexInfoMap(ids)), Undef))
       \/ \E ids \in IdLists : \E es \in FlatEdges(Range(ids)) :
            \E p \in 0..MaxPipelines : \E f \in Cuts(es, p) :
               FetchResponse(DagJob(Some(VertexInfoMap(ids)),
                                    Some(EdgeMap(es, p, f))))

\* setTimeout(() => { init(); graph.centerContent() }, 500)
InitTimer ==
    /\ timer = "armed"
    /\ timer' = "fired"
    /\ initSaw' = IF fetch = "done" THEN "loaded" ELSE "empty"
    /\ LET r == init(job)
       IN  threw' = r.threw /\ matrix' = r.matrix /\ cells' = r.cells
    /\ UNCHANGED <<table, animVars, fetch, job, clockVars, drawerVars>>

PageInit ==
    /\ fetch = "pending" /\ job = EmptyJob
    /\ DagInit /\ ClockInit /\ DrawerInit /\ TableInit /\ AnimInit

NextDag == InitTimer \/ FetchResponseDag \/ FetchFail

SpecDag == PageInit /\ [][NextDag]_vars

\* The page with its clock and its user: the job of the response has the
\* vertices 1 (source), 2 (transform) and 3 (sink), or no jobDag.
DetailVertices ==
    <<VertexOf(1, "source", <<"a">>), VertexOf(2, "transform", <<>>),
      VertexOf(3, "sink", <<"b">>)>>

FetchResponseDetail ==
    /\ fetch = "pending"
    /\ \E status \in JobStatuses : \E created \in 0..MaxClock :
         \E dag \in {Undef, Some([vertexInfoMap |-> Some(DetailVertices),
                                  pipelineEdges |-> Undef])} :
            FetchResponse([EmptyJob EXCEPT !.jobStatus = Some(status),
                                           !.createTime = Some(created),
                                           !.jobDag = dag])

NextDetail ==
    \/ FetchResponseDetail
    \/ FetchFail
    \/ IntervalTick
    \/ TimePasses
    \/ NodeClick
    \/ BlankClick
    \/ RowClick
    \/ DrawerClose
    \/ TabChange

SpecDetail == PageInit /\ [][NextDetail]_vars

\* The page and its table: the job of the response has one vertex of any
\* type and table paths; its metrics are undefined, or hold a map for every
\* key of present, each map with an entry for every path but those of
\* lacking.
Paths == {"a", "b"}

KeyNo(key) ==
    CHOOSE n \in 0..7 :
        \/ n < 4 /\ SourceKeys[n + 1] = key
        \/ n >= 4 /\ SinkKeys[n - 3] = key

MetricValue(key, path) == KeyNo(key) * 100 + (IF path = "a" THEN 10 ELSE 20)

MetricsOf(present, lacking) ==
    [k \in MetricKeys |->
        IF k \in present
        THEN Some([q \in Paths |->
                    IF q \in lacking THEN Undef ELSE Some(MetricValue(k, q))])
        ELSE Undef]

MetricsJob(type, paths, metrics) ==
    [EmptyJob EXCEPT
        !.jobStatus = Some("FINISHED"),
        !.createTime = Some(0),
        !.jobDag = Some([vertexInfoMap |-> Some(<<VertexOf(1, type, paths)>>),
                         pipelineEdges |-> Undef]),
        !.metrics = metrics]

FetchResponseMetrics ==
    /\ fetch = "pending"
    /\ \E type \in {"source", "sink", "transform", "other"} :
         \E paths \in SeqsUpTo(Paths, MaxPaths) :
            \/ FetchResponse(MetricsJob(type, paths, Undef))
            \/ \E present \in SUBSET MetricKeys : \E lacking \in SUBSET Paths :
                 FetchResponse(MetricsJob(type, paths,
                                          Some(MetricsOf(present, lacking))))

NextMetrics == FetchResponseMetrics \/ FetchFail \/ RenderTable

SpecMetrics == PageInit /\ [][NextMetrics]_vars

\* The page and a caller of showNodeStatus: the job of the response has the
\* vertices 1 and 2 joined by an edge.
FetchResponseAnim ==
    /\ fetch = "pending"
    /\ FetchResponse(DagJob(Some(VertexInfoMap(<<1, 2>>)),
                         Some(EdgeMap(<< <<1, 2>> >>, 1, <<1>>))))

NextAnimator ==
    \/ FetchResponseAnim
    \/ FetchFail
    \/ InitTimer
    \/ CallShowNodeStatus
    \/ AnimTimerFire

SpecAnimator == PageInit /\ [][NextAnimator]_vars

----------------------------------------------------------------------------
(* Claims about the DAG component *)

\* The job init() read: the loaded job, or the empty object before the
\* response.
InitJob == IF initSaw = "loaded" THEN job ELSE EmptyJob

IsNode(c) == c.shape = "dag-node"
IsEdge(c) == c.shape = "dag-edge"
NodeCells == SelectSeq(cells, IsNode)
EdgeCells == SelectSeq(cells, IsEdge)

\* The edges of a job as pairs of id strings, over all pipelines.
EdgePairs(j) ==
    IF ~IsDef(j.jobDag) THEN {}
    ELSE UNION {{<<edgeMapOf(j)[k].edges[e].inputVertexId,
                   edgeMapOf(j)[k].edges[e].targetVertexId>>
                 : e \in DOMAIN edgeMapOf(j)[k].edges}
                : k \in DOMAIN edgeMapOf(j)}

\* C1: whenever the vertex list is absent or empty when init() runs (the job
\* still being the empty object included), init() does not throw and the
\* scene it emits has no node and no edge.
C1_EmptyVerticesEmptyScene ==
    (timer = "fired" /\ pointsOf(InitJob) = <<>>) => (~threw /\ cells = <<>>)

\* C2: once the response has arrived and the init timer has fired, in either
\* order, the scene holds exactly one node per vertex of the job's DAG.
C2_SceneFollowsSnapshot ==
    (fetch = "done" /\ timer = "fired") =>
        /\ Len(NodeCells) = Len(pointsOf(job))
        /\ {NodeCells[i].data.id : i \in DOMAIN NodeCells}
             = {pointsOf(job)[i].vertexId : i \in DOMAIN pointsOf(job)}

\* The vertex ids of a job, in list order.
IdsOf(j) == [i \in DOMAIN pointsOf(j) |-> pointsOf(j)[i].vertexId]

\* The job has the three vertices a, b, c, in any order, joined by the edges
\* a->b and b->c and no other.
IsChain(j, a, b, c) ==
    /\ Len(pointsOf(j)) = 3
    /\ Range(IdsOf(j)) = {a, b, c}
    /\ a # b /\ b # c /\ a # c
    /\ EdgePairs(j) = {<<String(a), String(b)>>, <<String(b), String(c)>>}

\* C3 as stated: for three vertices A, B, C listed in any order whose only
\* edges are A->B and B->C, init() builds the single row [A, B, C].
C3_ChainSingleRowAnyOrder ==
    (timer = "fired" /\ initSaw = "loaded" /\ Len(pointsOf(job)) = 3) =>
        \A a, b, c \in Range(IdsOf(job)) :
            IsChain(job, a, b, c) => matrix = << <<a, b, c>> >>

\* C3 amended: for three vertices listed in the order A, B, C whose only
\* edges are A->B and B->C, init() builds the single row [A, B, C].
C3_ChainSingleRowInOrder ==
    (timer = "fired" /\ initSaw = "loaded" /\ Len(pointsOf(job)) = 3) =>
        \A a, b, c \in Range(IdsOf(job)) :
            (IsChain(job, a, b, c) /\ IdsOf(job) = <<a, b, c>>)
            => matrix = << <<a, b, c>> >>

C3_Witness ==
    /\ timer = "fired" /\ initSaw = "loaded"
    /\ IsChain(job, 2, 1, 3)
    /\ IdsOf(job) = <<2, 1, 3>>
    /\ matrix = << <<2, 1, 3>> >>

\* C4: any two edge descriptors emitted by one init() have different
\* identifiers.
C4_EdgeIdsDistinct ==
    \A i, k \in DOMAIN EdgeCells : i # k => EdgeCells[i].id # EdgeCells[k].id

HasPort(cell, port) ==
    \E n \in DOMAIN NodeCells :
        /\ NodeCells[n].id = cell
        /\ \E q \in DOMAIN NodeCells[n].ports : NodeCells[n].ports[q].id = port

\* C9: every edge descriptor's source port exists on its source node and
\* its target port exists on its target node.
C9_EdgePortsExist ==
    \A e \in DOMAIN EdgeCells :
        /\ HasPort(EdgeCells[e].source.cell, EdgeCells[e].source.port)
        /\ HasPort(EdgeCells[e].target.cell, EdgeCells[e].target.port)

\* The grid after n steps of the layout loop holds each of the first n points
\* in exactly one cell, has no empty row, and joins each cell of a row to the
\* next cell of the row by an edge.
GridOk(j, points, mat, n) ==
    /\ Len(Flatten(mat)) = n
    /\ Range(Flatten(mat)) = 1..n
    /\ \A r \in DOMAIN mat : mat[r] # <<>>
    /\ \A r \in DOMAIN mat : \A c \in 1..(Len(mat[r]) - 1) :
          <<String(points[mat[r][c]].vertexId),
            String(points[mat[r][c + 1]].vertexId)>> \in EdgePairs(j)

\* The layout states init() goes through on points: before the loop and
\* after each of its first n steps.
RECURSIVE LayoutTrace(_, _, _)
LayoutTrace(j, points, n) ==
    IF n = 0 THEN <<EmptyLayout(points)>>
    ELSE LET t == LayoutTrace(j, points, n - 1)
         IN  Append(t, LayoutStep(j, points, t[Len(t)], n))

\* C10: after each step of the layout loop the grid is a partition of the
\* vertices processed so far into non-empty rows whose neighbouring cells are
\* joined by an edge, and init() emits as many nodes as there are vertices.
C10_GridPartition ==
    timer = "fired" =>
        LET points == pointsOf(InitJob)
            t == LayoutTrace(InitJob, points, Len(points))
        IN  /\ \A n \in 0..Len(points) : GridOk(InitJob, points, t[n + 1].matrix, n)
            /\ matrix = idRows(points, t[Len(points) + 1].matrix)
            /\ Len(NodeCells) = Len(points)

\* A fan-out has been laid out: a row of two cells and a second row.
C10_Witness ==
    /\ timer = "fired" /\ initSaw = "loaded"
    /\ Len(matrix) >= 2
    /\ \E r \in DOMAIN matrix : Len(matrix[r]) >= 2
    /\ Len(NodeCells) = 3

----------------------------------------------------------------------------
(* Claims about the detail page *)

\* C5: before the response there is no interval and no tick; after it the
\* interval runs if and only if the fetched status is RUNNING; with RUNNING
\* every elapsed second has made one tick and each tick has recomputed the
\* duration from the current time; with any other status the duration has
\* been computed once, at the response, and is still that value.
C5_IntervalIffRunning ==
    /\ fetch # "done" =>
          ~intervalOn /\ ticks = 0 /\ writes = 0 /\ duration = <<>>
    /\ fetch = "done" =>
          /\ intervalOn <=> (job.jobStatus = Some("RUNNING"))
          /\ job.jobStatus = Some("RUNNING") =>
                /\ ticks * tickMs = now - respTime
                /\ writes = 1 + ticks
                /\ duration = <<Abs(now - Val(job.createTime) * 1000)>>
          /\ job.jobStatus # Some("RUNNING") =>
                /\ ticks = 0
                /\ writes = 1
                /\ duration = <<Abs(respTime - Val(job.createTime) * 1000)>>

\* A RUNNING job two ticks after its response, and the duration moved on.
C5_Witness ==
    /\ fetch = "done"
    /\ job.jobStatus = Some("RUNNING")
    /\ ticks = 2
    /\ duration # <<Abs(respTime - Val(job.createTime) * 1000)>>

\* C8: the drawer is shown only on the Overview tab with a non-zero focus; a
\* blank-canvas click leaves it hidden; closing the drawer hides it and
\* leaves focusedId as it was.
C8_DrawerFocus ==
    /\ [](DrawerShown => (select = "Overview" /\ focusedId # 0))
    /\ [](lastOp = "blank" => ~DrawerShown)
    /\ [][(DrawerShown /\ lastOp' = "close")
            => (focusedId' = focusedId /\ ~DrawerShown')]_vars

\* The drawer was shown for vertex 3 and has been closed: the focus stays.
C8_Witness ==
    /\ lastOp = "close"
    /\ focusedId = 3
    /\ ~DrawerShown
    /\ select = "Overview"

\* The sum of the entries of the job's metrics under key for paths.
RECURSIVE SumOfEntries(_, _, _)
SumOfEntries(j, key, paths) ==
    IF paths = <<>> THEN 0
    ELSE Val(Val(Val(j.metrics)[key])[Head(paths)])
         + SumOfEntries(j, key, Tail(paths))

\* The job's metrics hold an entry under key for each of paths.
HasEntries(j, key, paths) ==
    /\ IsDef(j.metrics)
    /\ IsDef(Val(j.metrics)[key])
    /\ \A i \in DOMAIN paths : IsDef(Val(Val(j.metrics)[key])[paths[i]])

\* C6: in every row of the table each source column is a number, the sum of
\* the entries of its key over the row's table paths when the row is a source
\* and 0 otherwise, and each sink column likewise for a sink.
C6_CellsAreSums ==
    table = renderTable(job) =>
        \A r \in DOMAIN table : \A c \in DOMAIN columns :
            LET row == table[r].row
                cell == table[r].cells[c]
            IN  /\ row.type # "transform"
                /\ cell.kind # "TypeError"
                /\ row.type # columns[c].cell => cell = Num(0)
                /\ (row.type = columns[c].cell
                    /\ HasEntries(job, columns[c].key, row.tablePaths))
                   => cell = Num(SumOfEntries(job, columns[c].key, row.tablePaths))

\* C7: a call of showNodeStatus with an empty list changes no node and
\* schedules nothing; a call with a non-empty list applies the whole of one
\* snapshot of the list and schedules one next call, so one timeout is
\* always pending.
C7_AnimatorLoop ==
    invocations > 0 =>
        IF Val(statusList) = <<>>
        THEN lastCall.mutations = 0 /\ lastCall.scheduled = 0 /\ animTimers = 0
        ELSE /\ ~lastCall.threw
             /\ lastCall.picked \in DOMAIN Val(statusList)
             /\ lastCall.mutations = Len(Val(statusList)[lastCall.picked])
             /\ lastCall.scheduled = 1
             /\ animTimers = 1

====
